---- MODULE Spec2Model ----
(***************************************************************************)
(* ValkeySearchVectorStore (valkey-search-client.ts): the connection       *)
(* lifecycle of the adapter, its operations against the search engine and  *)
(* the way it reads the engine's replies.                                  *)
(*                                                                         *)
(* Strings the code inspects character by character (URLs, keys, KEYS      *)
(* patterns, reply elements, JSON text) are sequences of one-character     *)
(* strings.  Error messages the code searches with includes() are          *)
(* sequences of words.                                                     *)
(***************************************************************************)
EXTENDS Integers, Sequences, FiniteSets, TLC

VARIABLES
    constructed,     \* "no" | "yes" | "threw": has the constructor run
    urlArg,          \* the url the constructor was given
    ctorError,       \* message of the error the constructor threw, or << >>
    valkeyUrl,       \* this.valkeyUrl
    vectorSize,      \* this.vectorSize
    indexName,       \* this.indexName
    client,          \* this.client: "null", or the status of the client object
    isInitializing,  \* this.isInitializing
    curAwait,        \* who awaits connect() of this.client: "none" | "bg" | "op"
    curEndPending,   \* an 'end' event of this.client is still to be delivered
    staleEnd,        \* 'end' events still to be delivered by replaced clients
    staleBg,         \* background initializeClient calls awaiting connect() of a replaced client
    opStale,         \* the operation's initializeClient call awaits connect() of a replaced client
    timers,          \* pending setTimeout callbacks (their delays), oldest first
    attemptFlip,     \* flips whenever initializeClient starts an attempt
    retryOwed,       \* an attempt failed; since then none was started and the client was not ready
    consecFails,     \* failed attempts since the client was last ready (saturating)
    index,           \* engine: the workspace's index
    store,           \* engine: key -> hash written by HSET (and foreign keys)
    pc,              \* position of the operation in progress, "idle" if none
    resume,          \* where the operation continues once ensureConnected returns
    opName,          \* the operation in progress or last finished
    points,          \* argument of upsertPoints
    filePaths,       \* argument of deletePointsByMultipleFilePaths
    query,           \* arguments of search
    loc,             \* locals of the operation in progress
    sent,            \* commands the operation handed to the client, in order
    result           \* outcome of the last finished operation

connVars == <<client, isInitializing, curAwait, curEndPending, staleEnd, staleBg,
              opStale, timers, attemptFlip, retryOwed, consecFails>>
ctorVars == <<constructed, urlArg, ctorError, valkeyUrl, vectorSize, indexName>>
engineVars == <<index, store>>
opVars == <<pc, resume, opName, points, filePaths, query, loc, sent, result>>
vars == <<constructed, urlArg, ctorError, valkeyUrl, vectorSize, indexName,
          client, isInitializing, curAwait, curEndPending, staleEnd, staleBg,
          opStale, timers, attemptFlip, retryOwed, consecFails,
          index, store, pc, resume, opName, points, filePaths, query, loc, sent, result>>

----
(* Bounds of the model *)

MaxPending == 2
MaxStale == 1
MaxFails == 2
MaxBatch == 2
MaxDocs == 2
MaxPaths == 2

----
(* Sequences of characters *)

Min(a, b) == IF a < b THEN a ELSE b

IsSpace(ch) == ch = " "

RECURSIVE TrimLeft(_)
TrimLeft(s) == IF s # << >> /\ IsSpace(Head(s)) THEN TrimLeft(Tail(s)) ELSE s

RECURSIVE TrimRight(_)
TrimRight(s) ==
    IF s # << >> /\ IsSpace(s[Len(s)]) THEN TrimRight(SubSeq(s, 1, Len(s) - 1)) ELSE s

Trim(s) == TrimRight(TrimLeft(s))

\* s.split(sep): the pieces between occurrences of the separator character
RECURSIVE SplitAcc(_, _, _)
SplitAcc(s, sep, cur) ==
    IF s = << >> THEN << cur >>
    ELSE IF Head(s) = sep THEN << cur >> \o SplitAcc(Tail(s), sep, << >>)
    ELSE SplitAcc(Tail(s), sep, Append(cur, Head(s)))

Split(s, sep) == SplitAcc(s, sep, << >>)

\* .filter(Boolean) on an array of strings: drops the empty ones
FilterNonEmpty(ss) == SelectSeq(ss, LAMBDA x : x # << >>)

\* haystack.includes(needle) on sequences
Includes(hay, needle) ==
    \E i \in 0..(Len(hay) - Len(needle)) :
        \A j \in 1..Len(needle) : hay[i + j] = needle[j]

HexDigits == <<"0","1","2","3","4","5","6","7","8","9","a","b","c","d","e","f">>
Letters == {"a","b","c","d","e","f","g","h","i","j","k","l","m","n","o","p","q","r",
            "s","t","u","v","w","x","y","z"}

----
(* Constructor, lines 26-40 *)

DefaultUrl == <<"h","t","t","p",":","/","/","l","o","c","a","l","h","o","s","t",
                ":","6","3","7","9">>

\* parseValkeyUrl: an empty or blank url becomes the default, otherwise trimmed
parseValkeyUrl(url) == IF url = << >> \/ Trim(url) = << >> THEN DefaultUrl ELSE Trim(url)

\* createHash("sha256").update(workspacePath).digest("hex"): 64 hex characters,
\* an opaque function of the workspace path
DigestLen == 64
Sha256Hex(workspacePath) ==
    [i \in 1..DigestLen |-> HexDigits[((i * 7 + Len(workspacePath) * 3) % 16) + 1]]

HashPrefixLen == 16
IndexNameOf(workspacePath) ==
    <<"w","s","-">> \o SubSeq(Sha256Hex(workspacePath), 1, HashPrefixLen)

\* new URL(s) without a base throws unless s starts with a scheme (letters, then ':')
RECURSIVE HasScheme(_, _)
HasScheme(s, seen) ==
    IF s = << >> THEN FALSE
    ELSE IF Head(s) = ":" THEN seen > 0
    ELSE IF Head(s) \in Letters THEN HasScheme(Tail(s), seen + 1)
    ELSE FALSE

parseConnectionOptions(url) == [ok |-> HasScheme(url, 0)]

----
(* Connection state as a record, so that initializeClient is one function *)

Conn == [client |-> client, isInitializing |-> isInitializing, curAwait |-> curAwait,
         curEndPending |-> curEndPending, staleEnd |-> staleEnd, staleBg |-> staleBg,
         opStale |-> opStale, timers |-> timers, attemptFlip |-> attemptFlip,
         retryOwed |-> retryOwed,
         consecFails |-> consecFails]

SetConn(c) ==
    /\ client' = c.client
    /\ isInitializing' = c.isInitializing
    /\ curAwait' = c.curAwait
    /\ curEndPending' = c.curEndPending
    /\ staleEnd' = c.staleEnd
    /\ staleBg' = c.staleBg
    /\ opStale' = c.opStale
    /\ timers' = c.timers
    /\ retryOwed' = c.retryOwed
    /\ attemptFlip' = c.attemptFlip
    /\ consecFails' = c.consecFails

RetryDelayMs == 5000

\* a catch block that schedules nothing: the variant the retry claim rules out
ScheduleRetryNever(ts) == ts
\* setTimeout(async () => await this.initializeClient(), 5000)
ScheduleRetry(ts) == Append(ts, RetryDelayMs)

\* the catch block of initializeClient, lines 77-81
CatchFailure(c) ==
    [c EXCEPT !.isInitializing = FALSE,
              !.timers = ScheduleRetry(c.timers),
              !.retryOwed = (c.client # "ready"),
              !.consecFails = IF c.client = "ready" THEN 0
                              ELSE Min(c.consecFails + 1, MaxFails)]

\* the guard of initializeClient, line 43
InitGuardReturns(c) == c.isInitializing \/ c.client = "ready"

Live == {"connecting", "ready", "reconnecting"}

\* this.client.disconnect() (lines 50-52, 394-396): a live client ends and will
\* deliver 'end'; a pending connect() of it will reject
Disconnect(c) ==
    IF c.client \in Live THEN [c EXCEPT !.client = "end", !.curEndPending = TRUE] ELSE c

\* this.client = new Valkey(...) (lines 55-60): the client held so far is no longer
\* this.client, but its handlers and its pending connect() still refer to this store
Replace(c) ==
    [c EXCEPT !.client = "connecting",
              !.staleEnd = c.staleEnd + (IF c.curEndPending THEN 1 ELSE 0),
              !.curEndPending = FALSE,
              !.staleBg = c.staleBg + (IF c.curAwait = "bg" THEN 1 ELSE 0),
              !.opStale = c.opStale \/ c.curAwait = "op",
              !.curAwait = "none"]

\* initializeClient up to its first await (line 76) or its return, called by who
\* ("bg": the constructor or a retry timer, "op": ensureConnected).
\* .waits: the caller is left awaiting connect()
initializeClient(c, who, url) ==
    IF InitGuardReturns(c) THEN [conn |-> c, waits |-> FALSE]
    ELSE LET c1 == [c EXCEPT !.isInitializing = TRUE, !.retryOwed = FALSE,
                             !.attemptFlip = ~c.attemptFlip]
             c2 == Disconnect(c1)
         IN IF ~parseConnectionOptions(url).ok
            THEN [conn |-> CatchFailure(c2), waits |-> FALSE]
            ELSE [conn |-> [Replace(c2) EXCEPT !.curAwait = who], waits |-> TRUE]

\* retry timers and initializeClient invocations awaiting a connect(): only a call
\* of ensureConnected adds to them, a timer that fires at most replaces itself
InFlight(c) ==
    Len(c.timers) + c.staleBg + (IF c.curAwait # "none" THEN 1 ELSE 0)
        + (IF c.opStale THEN 1 ELSE 0)

\* the model's bounds: 'end' events not yet delivered, and timers and invocations
\* in flight when an operation is called
StaleWithinBound(c) == c.staleEnd <= MaxStale
WithinBounds(c) == StaleWithinBound(c) /\ InFlight(c) <= MaxPending

\* ensureConnected, lines 93-97
ensureConnected(c, url) ==
    IF c.client = "null" \/ c.client # "ready"
    THEN initializeClient(c, "op", url)
    ELSE [conn |-> c, waits |-> FALSE]

----
(* Inputs *)

WorkspacePaths == {<<"/","w">>}
Urls == { << >>, <<" ","v",":","/","/","h"," ">>, <<"h","o","s","t">> }
DefaultVectorSize == 3
VectorSizes == {DefaultVectorSize, DefaultVectorSize + 1}

PointIds == {<<"a">>, <<"b">>}
validKeys == {"filePath", "codeChunk", "startLine", "endLine"}
PathSep == "/"

NullPayload == [present |-> FALSE, keys |-> {}, filePath |-> << >>]
GoodPayload == [present |-> TRUE, keys |-> validKeys, filePath |-> <<"s","/","f">>]
RootPayload == [present |-> TRUE, keys |-> validKeys, filePath |-> <<"/","g">>]
NoEndLine == [present |-> TRUE, keys |-> validKeys \ {"endLine"}, filePath |-> <<"s","/","f">>]

Points == { [id |-> <<"a">>, payload |-> GoodPayload],
            [id |-> <<"b">>, payload |-> RootPayload],
            [id |-> <<"b">>, payload |-> NoEndLine],
            [id |-> <<"a">>, payload |-> NullPayload] }

RECURSIVE SeqsUpTo(_, _)
SeqsUpTo(S, n) ==
    IF n = 0 THEN { << >> }
    ELSE LET shorter == SeqsUpTo(S, n - 1)
         IN shorter \cup { Append(s, x) : s \in shorter, x \in S }

Batches == SeqsUpTo(Points, MaxBatch)

----
(* Errors: what a rejected command or a throw carries *)

Err(words) == [isError |-> TRUE, message |-> words]
NonError == [isError |-> FALSE, message |-> << >>]

UnknownIndexName == <<"Unknown", "index", "name">>
MsgUnknownIndex == <<"ws", ":", "Unknown", "index", "name">>
MsgClosed == <<"Connection", "is", "closed.">>
MsgIndexExists == <<"Index", "already", "exists">>
MsgAlreadyExists == <<"Duplicate", "field:", "already", "exists">>

NoResult == [status |-> "none", op |-> "", flag |-> "none", rows |-> << >>,
             message |-> << >>]
OkResult(op, flag, rows) ==
    [status |-> "ok", op |-> op, flag |-> flag, rows |-> rows, message |-> << >>]
ErrResult(op, msg) ==
    [status |-> "error", op |-> op, flag |-> "none", rows |-> << >>, message |-> msg]

\* the outcome of handing a command to the client: accepted, or rejected with e
NoFault == [failed |-> FALSE, isError |-> FALSE, message |-> << >>]
Rejected(e) == [failed |-> TRUE, isError |-> e.isError, message |-> e.message]

----
(* JavaScript values as the code takes them apart: strings, numbers, arrays,   *)
(* parsed JSON objects (.a holds the members) and undefined                    *)

Str(s) == [t |-> "str", s |-> s, a |-> << >>]
Num(digits) == [t |-> "num", s |-> digits, a |-> << >>]
Arr(a) == [t |-> "arr", s |-> << >>, a |-> a]
Pair(k, v) == [t |-> "pair", s |-> k, a |-> << v >>]
Obj(members) == [t |-> "obj", s |-> << >>, a |-> members]
Lit(name) == [t |-> "lit", s |-> name, a |-> << >>]
Undefined == [t |-> "undef", s |-> << >>, a |-> << >>]

S_filePath == <<"f","i","l","e","P","a","t","h">>
S_startLine == <<"s","t","a","r","t","L","i","n","e">>
S_name == <<"n","a","m","e">>
S_age == <<"a","g","e">>
S_coins == <<"c","o","i","n","s">>
S_payload == <<"p","a","y","l","o","a","d">>
S_count == <<"c","o","u","n","t">>
S_true == <<"t","r","u","e">>
S_false == <<"f","a","l","s","e">>
S_null == <<"n","u","l","l">>
S_undefined == <<"u","n","d","e","f","i","n","e","d">>
S_object == <<"[","o","b","j","e","c","t"," ","O","b","j","e","c","t","]">>

Digits == {"0","1","2","3","4","5","6","7","8","9"}

\* array destructuring iterates its source: a string yields its characters, an
\* array its elements, anything else throws a TypeError
Iterable(v) == v.t \in {"str", "arr"}
Items(v) == IF v.t = "str" THEN [i \in 1..Len(v.s) |-> Str(<< v.s[i] >>)] ELSE v.a
At(items, i) == IF i <= Len(items) THEN items[i] ELSE Undefined

\* String(v), as JSON.parse applies it to its argument
RECURSIVE ToStringJS(_)
RECURSIVE JoinComma(_)
ToStringJS(v) ==
    CASE v.t \in {"str", "num", "lit"} -> v.s
      [] v.t = "undef" -> S_undefined
      [] v.t = "arr" -> JoinComma(v.a)
      [] OTHER -> S_object
JoinComma(vs) ==
    IF vs = << >> THEN << >>
    ELSE IF Len(vs) = 1 THEN ToStringJS(vs[1])
    ELSE ToStringJS(vs[1]) \o <<",">> \o JoinComma(Tail(vs))

StartsWith(s, p) == Len(s) >= Len(p) /\ SubSeq(s, 1, Len(p)) = p
Drop(s, n) == SubSeq(s, n + 1, Len(s))

\* JSON.parse on text without white space, escapes or arrays (JSON.stringify of
\* the documents modelled here produces none): objects, strings, integers and
\* the literals.  .ok = FALSE stands for the SyntaxError
ParseFail == [ok |-> FALSE, v |-> Undefined, rest |-> << >>]
Parsed(v, rest) == [ok |-> TRUE, v |-> v, rest |-> rest]

RECURSIVE ParseString(_, _)
ParseString(s, acc) ==
    IF s = << >> THEN ParseFail
    ELSE IF Head(s) = "\"" THEN Parsed(Str(acc), Tail(s))
    ELSE IF Head(s) = "\\" THEN ParseFail
    ELSE ParseString(Tail(s), Append(acc, Head(s)))

RECURSIVE ParseDigits(_, _)
ParseDigits(s, acc) ==
    IF s # << >> /\ Head(s) \in Digits THEN ParseDigits(Tail(s), Append(acc, Head(s)))
    ELSE IF Len(acc) > 1 /\ acc[1] = "0" THEN ParseFail
    ELSE Parsed(Num(acc), s)

RECURSIVE ParseValue(_)
RECURSIVE ParseMembers(_, _)
ParseValue(s) ==
    IF s = << >> THEN ParseFail
    ELSE IF Head(s) = "{"
    THEN IF Len(s) >= 2 /\ s[2] = "}" THEN Parsed(Obj(<< >>), Drop(s, 2))
         ELSE ParseMembers(Tail(s), << >>)
    ELSE IF Head(s) = "\"" THEN ParseString(Tail(s), << >>)
    ELSE IF Head(s) \in Digits THEN ParseDigits(s, << >>)
    ELSE IF StartsWith(s, S_true) THEN Parsed(Lit(S_true), Drop(s, 4))
    ELSE IF StartsWith(s, S_false) THEN Parsed(Lit(S_false), Drop(s, 5))
    ELSE IF StartsWith(s, S_null) THEN Parsed(Lit(S_null), Drop(s, 4))
    ELSE ParseFail
ParseMembers(s, acc) ==
    IF s = << >> \/ Head(s) # "\"" THEN ParseFail
    ELSE LET k == ParseString(Tail(s), << >>)
         IN IF ~k.ok \/ k.rest = << >> \/ Head(k.rest) # ":" THEN ParseFail
            ELSE LET v == ParseValue(Tail(k.rest))
                 IN IF ~v.ok \/ v.rest = << >> THEN ParseFail
                    ELSE IF Head(v.rest) = "}"
                    THEN Parsed(Obj(Append(acc, Pair(k.v.s, v.v))), Tail(v.rest))
                    ELSE IF Head(v.rest) = ","
                    THEN ParseMembers(Tail(v.rest), Append(acc, Pair(k.v.s, v.v)))
                    ELSE ParseFail

JSONparse(text) ==
    LET r == ParseValue(text)
    IN IF r.ok /\ r.rest = << >> THEN [ok |-> TRUE, v |-> r.v]
       ELSE [ok |-> FALSE, v |-> Undefined]

\* JSON.stringify of a document with a file path and a start line
Quote(s) == <<"\"">> \o s \o <<"\"">>
JSONstringify(filePath, startLine) ==
    <<"{">> \o Quote(S_filePath) \o <<":">> \o Quote(filePath) \o <<",">>
        \o Quote(S_startLine) \o <<":">> \o startLine \o <<"}">>

\* data.key; reading a property of null throws (IsNull is asked first)
IsNull(v) == v.t = "lit" /\ v.s = S_null
Prop(v, key) ==
    IF v.t # "obj" THEN Undefined
    ELSE LET hits == SelectSeq(v.a, LAMBDA p : p.s = key)
         IN IF hits = << >> THEN Undefined ELSE hits[Len(hits)].a[1]

\* x || fallback
Truthy(v) ==
    CASE v.t = "str" -> v.s # << >>
      [] v.t = "num" -> \E i \in 1..Len(v.s) : v.s[i] # "0"
      [] v.t = "lit" -> v.s = S_true
      [] v.t = "undef" -> FALSE
      [] OTHER -> TRUE
OrElse(v, fallback) == IF Truthy(v) THEN v ELSE fallback

\* KEYS pattern matching: '*' and '?' and literal characters (the patterns the
\* adapter sends hold no '[' and no backslash)
RECURSIVE GlobMatch(_, _)
GlobMatch(p, s) ==
    IF p = << >> THEN s = << >>
    ELSE IF Head(p) = "*"
    THEN GlobMatch(Tail(p), s) \/ (s # << >> /\ GlobMatch(p, Tail(s)))
    ELSE IF Head(p) = "?" THEN s # << >> /\ GlobMatch(Tail(p), Tail(s))
    ELSE s # << >> /\ Head(s) = Head(p) /\ GlobMatch(Tail(p), Tail(s))

----
(* The engine: the index of the workspace and the keys of the keyspace *)

VectorAttr(d) == [attribute |-> "vector", type |-> "VECTOR", dimension |-> d]
TagAttr(name) == [attribute |-> name, type |-> "TAG", dimension |-> 0]
NoIndex == [exists |-> FALSE, attributes |-> << >>]
IndexWith(attrs) == [exists |-> TRUE, attributes |-> attrs]

EmptyStore == << >>
Remove(st, ks) == [k \in (DOMAIN st) \ ks |-> st[k]]

\* a command the client was handed
Cmd(name, key, arg) == [cmd |-> name, key |-> key, arg |-> arg]
HasCmd(log, name) == \E i \in 1..Len(log) : log[i].cmd = name
CountCmd(log, name) == Cardinality({i \in 1..Len(log) : log[i].cmd = name})

\* what becomes of a command handed to a client in state cl, before the engine
\* sees it: a client that has ended rejects it; otherwise it reaches the engine
\* (at once, or from the client's queue once connected) or is rejected
Faults(cl) ==
    IF cl = "end" THEN {Rejected(Err(MsgClosed))}
    ELSE {NoFault, Rejected(Err(MsgClosed)), Rejected(NonError)}

\* the engine's answers, as the code relies on them: FT.INFO and FT.DROPINDEX
\* of a missing index fail with "Unknown index name" (line 118), FT.ALTER of a
\* field already in the schema fails with "already exists" (line 186)
EngineInfo(ix) ==
    IF ix.exists THEN [fault |-> NoFault, index |-> ix]
    ELSE [fault |-> Rejected(Err(MsgUnknownIndex)), index |-> ix]

EngineCreate(ix, dim) ==
    IF ix.exists THEN [fault |-> Rejected(Err(MsgIndexExists)), index |-> ix]
    ELSE [fault |-> NoFault, index |-> IndexWith(<< VectorAttr(dim) >>)]

EngineDrop(ix) ==
    IF ix.exists THEN [fault |-> NoFault, index |-> NoIndex]
    ELSE [fault |-> Rejected(Err(MsgUnknownIndex)), index |-> ix]

\* info.attributes?.find((attr) => attr.attribute === name), line 129
FindAttr(attrs, name) ==
    LET hits == SelectSeq(attrs, LAMBDA a : a.attribute = name)
    IN IF hits = << >> THEN [found |-> FALSE, attr |-> TagAttr("")]
       ELSE [found |-> TRUE, attr |-> Head(hits)]

EngineAlter(ix, name) ==
    IF ~ix.exists THEN [fault |-> Rejected(Err(MsgUnknownIndex)), index |-> ix]
    ELSE IF FindAttr(ix.attributes, name).found
    THEN [fault |-> Rejected(Err(MsgAlreadyExists)), index |-> ix]
    ELSE [fault |-> NoFault,
          index |-> [ix EXCEPT !.attributes = Append(ix.attributes, TagAttr(name))]]

\* the outcome of a command: the fault if there is one, else the engine's answer
Exec(f, answer) == IF f.failed THEN [fault |-> f, index |-> index] ELSE answer

----
(* Locals of an operation *)

\* .ensured: the state of this.client when ensureConnected last returned;
\* .info1: the outcome of the first FT.INFO of initialize; .index0: the index when
\* the operation was called; .reported: the documents of the last FT.SEARCH reply
NoLoc == [i |-> 0, indexExists |-> TRUE, created |-> FALSE, documents |-> << >>,
          info1 |-> NoFault, ensured |-> "none", index0 |-> NoIndex,
          reported |-> << >>]

NoQuery == [directoryPrefix |-> << >>, maxResults |-> << >>]

\* a call enters through ensureConnected and continues at label next
Enter(next, l) ==
    LET r == ensureConnected(Conn, valkeyUrl)
    IN /\ WithinBounds(r.conn)
       /\ SetConn(r.conn)
       /\ pc' = IF r.waits THEN "await" ELSE next
       /\ resume' = next
       /\ loc' = [l EXCEPT !.ensured = IF r.waits THEN "none" ELSE r.conn.client]

\* a call of operation op with no arguments of its own
Call(op, next) ==
    /\ constructed = "yes" /\ pc = "idle"
    /\ opName' = op
    /\ sent' = << >> /\ result' = NoResult
    /\ Enter(next, [NoLoc EXCEPT !.index0 = index])
    /\ UNCHANGED <<ctorVars, engineVars, points, filePaths, query>>

\* what a step of an operation after ensureConnected leaves alone
BodyFrame == UNCHANGED <<ctorVars, connVars, resume, opName, points, filePaths, query>>

Finish(res) == pc' = "idle" /\ result' = res
Goto(label) == pc' = label /\ result' = result
Send(name, arg) == sent' = Append(sent, Cmd(name, indexName, arg))

MsgTypeError == <<"TypeError">>
MsgSyntaxError == <<"SyntaxError">>

----
(* initialize, lines 107-169, and _createPayloadIndexes, lines 171-191 *)

MsgInitFailed == <<"Index", "initialization", "failed:">>
InitFailed(msg) == ErrResult("initialize", MsgInitFailed \o msg)

\* every failure taken for "index not found": the variant the claim on the
\* first FT.INFO rules out
AnyFailureIsNotFound(f) == f.failed
\* line 118: the failure of FT.INFO that stands for "index not found"
IndexNotFound(f) == f.failed /\ f.isError /\ Includes(f.message, UnknownIndexName)

\* a check of the field's type alone: the variant the claim on the dimension
\* rules out
TypeAloneIsCorrect(info, size) ==
    LET vectorField == FindAttr(info.attributes, "vector")
    IN vectorField.found /\ vectorField.attr.type = "VECTOR"
\* line 130: the vector field of the index has the configured dimension
ConfigurationIsCorrect(info, size) ==
    LET vectorField == FindAttr(info.attributes, "vector")
    IN /\ vectorField.found
       /\ vectorField.attr.type = "VECTOR"
       /\ vectorField.attr.dimension = size

PayloadIndexCount == 5
PathSegmentTag(i) ==
    <<"pathSegments_0", "pathSegments_1", "pathSegments_2", "pathSegments_3",
      "pathSegments_4">>[i + 1]

CallInitialize == Call("initialize", "init_info1")

\* the first FT.INFO, lines 113-123
InitInfo1 ==
    /\ pc = "init_info1"
    /\ IF client = "null"
       THEN /\ Goto("init_info2")
            /\ UNCHANGED <<sent, loc>>
       ELSE \E f \in Faults(client) :
               LET r == Exec(f, EngineInfo(index))
               IN /\ Send("FT.INFO", << >>)
                  /\ loc' = [loc EXCEPT !.info1 = r.fault,
                                        !.indexExists = ~IndexNotFound(r.fault)]
                  /\ IF ~r.fault.failed THEN Goto("init_info2")
                     ELSE IF IndexNotFound(r.fault) THEN Goto("init_create")
                     ELSE Finish(InitFailed(r.fault.message))
    /\ UNCHANGED engineVars
    /\ BodyFrame

\* the second FT.INFO and the check of the vector field, lines 125-138; a null
\* client leaves info undefined, and info.attributes throws
InitInfo2 ==
    /\ pc = "init_info2"
    /\ IF client = "null"
       THEN /\ Finish(InitFailed(MsgTypeError))
            /\ UNCHANGED <<sent, loc>>
       ELSE \E f \in Faults(client) :
               LET r == Exec(f, EngineInfo(index))
               IN /\ Send("FT.INFO", << >>)
                  /\ IF r.fault.failed
                     THEN Finish(InitFailed(r.fault.message)) /\ loc' = loc
                     ELSE IF ConfigurationIsCorrect(r.index, vectorSize)
                     THEN Goto("init_alter") /\ loc' = [loc EXCEPT !.i = 0]
                     ELSE Goto("init_drop") /\ loc' = loc
    /\ UNCHANGED engineVars
    /\ BodyFrame

\* await this.deleteCollection(), line 137: deleteCollection enters through
\* ensureConnected
InitDrop ==
    /\ pc = "init_drop"
    /\ Enter("drop_send", loc)
    /\ UNCHANGED <<ctorVars, engineVars, opName, points, filePaths, query, sent, result>>

CallDeleteCollection == Call("deleteCollection", "drop_send")

\* deleteCollection after ensureConnected, lines 359-365; its error is rethrown,
\* and inside initialize caught at line 165
DropSend ==
    /\ pc = "drop_send"
    /\ IF client = "null"
       THEN /\ IF opName = "initialize" THEN Goto("init_create")
               ELSE Finish(OkResult(opName, "none", << >>))
            /\ UNCHANGED <<sent, index>>
       ELSE \E f \in Faults(client) :
               LET r == Exec(f, EngineDrop(index))
               IN /\ Send("FT.DROPINDEX", <<"DD">>)
                  /\ index' = r.index
                  /\ IF r.fault.failed
                     THEN Finish(IF opName = "initialize" THEN InitFailed(r.fault.message)
                                 ELSE ErrResult(opName, r.fault.message))
                     ELSE IF opName = "initialize" THEN Goto("init_create")
                     ELSE Finish(OkResult(opName, "none", << >>))
    /\ UNCHANGED <<store, loc>>
    /\ BodyFrame

\* FT.CREATE, lines 140-160
InitCreate ==
    /\ pc = "init_create"
    /\ IF client = "null"
       THEN /\ Goto("init_alter")
            /\ loc' = [loc EXCEPT !.i = 0, !.created = TRUE]
            /\ UNCHANGED <<sent, index>>
       ELSE \E f \in Faults(client) :
               LET r == Exec(f, EngineCreate(index, vectorSize))
               IN /\ Send("FT.CREATE", << vectorSize >>)
                  /\ index' = r.index
                  /\ IF r.fault.failed
                     THEN Finish(InitFailed(r.fault.message)) /\ loc' = loc
                     ELSE /\ Goto("init_alter")
                          /\ loc' = [loc EXCEPT !.i = 0, !.created = TRUE]
    /\ UNCHANGED store
    /\ BodyFrame

\* one round of the loop of _createPayloadIndexes: a failure is logged or
\* ignored, never thrown; after the last round initialize returns (lines 133, 164)
InitAlter ==
    /\ pc = "init_alter"
    /\ IF client = "null"
       THEN UNCHANGED <<sent, index>>
       ELSE \E f \in Faults(client) :
               /\ Send("FT.ALTER", << loc.i >>)
               /\ index' = Exec(f, EngineAlter(index, PathSegmentTag(loc.i))).index
    /\ loc' = [loc EXCEPT !.i = loc.i + 1]
    /\ IF loc.i + 1 < PayloadIndexCount THEN Goto("init_alter")
       ELSE Finish(OkResult("initialize", IF loc.created THEN "true" ELSE "false", << >>))
    /\ UNCHANGED store
    /\ BodyFrame

----
(* collectionExists, lines 382-391 *)

CallCollectionExists == Call("collectionExists", "exists_send")

ExistsSend ==
    /\ pc = "exists_send"
    /\ IF client = "null"
       THEN Finish(OkResult("collectionExists", "true", << >>)) /\ sent' = sent
       ELSE \E f \in Faults(client) :
               /\ Send("FT.INFO", << >>)
               /\ Finish(OkResult("collectionExists",
                                  IF Exec(f, EngineInfo(index)).fault.failed
                                  THEN "false" ELSE "true", << >>))
    /\ UNCHANGED <<engineVars, loc>>
    /\ BodyFrame

----
(* upsertPoints, lines 213-266 *)

\* isPayloadValid, lines 207-211
isPayloadValid(payload) ==
    IF ~payload.present THEN FALSE ELSE \A key \in validKeys : key \in payload.keys

\* the pathSegments object of lines 237-251
PathSegments(filePath) == FilterNonEmpty(Split(filePath, PathSep))

DocId(name, id) == name \o <<":">> \o id

\* the hash of lines 253-257 (vector left out: no operation reads it back)
HashOf(point) ==
    [id |-> point.id,
     filePath |-> point.payload.filePath,
     payloadKeys |-> IF point.payload.filePath # << >>
                     THEN point.payload.keys \cup {"pathSegments"}
                     ELSE point.payload.keys,
     pathSegments |-> IF point.payload.filePath # << >>
                      THEN PathSegments(point.payload.filePath) ELSE << >>]

\* the loop of lines 228-258: the HSETs queued on the pipeline, and the index of
\* the first point whose payload is invalid (0 if none)
RECURSIVE FirstInvalid(_, _)
FirstInvalid(pts, i) ==
    IF i > Len(pts) THEN 0
    ELSE IF ~isPayloadValid(pts[i].payload) THEN i
    ELSE FirstInvalid(pts, i + 1)

Queued(name, pts, n) ==
    [i \in 1..n |-> Cmd("HSET", DocId(name, pts[i].id), HashOf(pts[i]))]

RECURSIVE ApplyHsets(_, _)
ApplyHsets(st, cmds) ==
    IF cmds = << >> THEN st
    ELSE LET c == Head(cmds)
             st1 == [k \in DOMAIN st \cup {c.key} |->
                        IF k = c.key THEN c.arg ELSE st[k]]
         IN ApplyHsets(st1, Tail(cmds))

MsgInvalidPayload == <<"Failed", "to", "upsert", "points:", "Invalid", "payload">>
MsgUpsertFailed == <<"Failed", "to", "upsert", "points:">>

\* a body that writes each point as the loop reaches it: the variant the claim
\* on payload validation rules out
UpsertEager(name, pts, cl, execOk) ==
    LET bad == FirstInvalid(pts, 1)
        n == IF bad = 0 THEN Len(pts) ELSE bad - 1
    IN IF cl = "null" \/ ~execOk
       THEN [res |-> ErrResult("upsertPoints", MsgUpsertFailed), sent |-> << >>]
       ELSE [res |-> IF bad = 0 THEN OkResult("upsertPoints", "none", << >>)
                     ELSE ErrResult("upsertPoints", MsgInvalidPayload),
             sent |-> Queued(name, pts, n)]
\* the body of upsertPoints after ensureConnected, on a client in state cl;
\* execOk: whether the engine accepts the pipeline.  .sent: what reached the client
UpsertOutcome(name, pts, cl, execOk) ==
    IF Len(pts) = 0 THEN [res |-> OkResult("upsertPoints", "none", << >>), sent |-> << >>]
    ELSE LET bad == FirstInvalid(pts, 1)
         IN IF bad # 0
            THEN [res |-> ErrResult("upsertPoints", MsgInvalidPayload), sent |-> << >>]
            ELSE IF cl = "null"
            THEN [res |-> OkResult("upsertPoints", "none", << >>), sent |-> << >>]
            ELSE IF ~execOk
            THEN [res |-> ErrResult("upsertPoints", MsgUpsertFailed \o MsgClosed),
                  sent |-> << >>]
            ELSE [res |-> OkResult("upsertPoints", "none", << >>),
                  sent |-> Queued(name, pts, Len(pts))]

CallUpsert(batches) ==
    /\ constructed = "yes" /\ pc = "idle"
    /\ \E pts \in batches : points' = pts
    /\ opName' = "upsertPoints"
    /\ sent' = << >> /\ result' = NoResult
    /\ Enter("upsert_body", NoLoc)
    /\ UNCHANGED <<ctorVars, engineVars, filePaths, query>>

CallUpsertPoints == CallUpsert(Batches)

\* a pipeline on a client that has ended is rejected; on a client that is not yet
\* ready it waits in the client's queue and is then executed or rejected
ExecOutcomes(cl) == IF cl = "end" THEN {FALSE} ELSE {TRUE, FALSE}

UpsertBody ==
    /\ pc = "upsert_body"
    /\ \E execOk \in ExecOutcomes(client) :
          LET o == UpsertOutcome(indexName, points, client, execOk)
          IN /\ result' = o.res
             /\ sent' = o.sent
             /\ store' = ApplyHsets(store, o.sent)
    /\ pc' = "idle"
    /\ UNCHANGED <<index, loc>>
    /\ BodyFrame

----
(* clearCollection, lines 368-380 *)

HashKeys(st) == {k \in DOMAIN st : st[k].id # << >>}

\* the pattern of the KEYS command, line 372
ClearPattern(name) == name

\* KEYS pattern: the keys of the keyspace the pattern matches
EngineKeys(st, pattern) == {k \in DOMAIN st : GlobMatch(pattern, k)}

CallClearCollection == Call("clearCollection", "clear_keys")

\* a null client leaves keys undefined, and keys.length throws
ClearKeys ==
    /\ pc = "clear_keys"
    /\ IF client = "null"
       THEN /\ Finish(ErrResult("clearCollection", MsgTypeError))
            /\ UNCHANGED <<sent, loc>>
       ELSE \E f \in Faults(client) :
               /\ Send("KEYS", ClearPattern(indexName))
               /\ IF f.failed
                  THEN Finish(ErrResult("clearCollection", f.message)) /\ loc' = loc
                  ELSE LET keys == EngineKeys(store, ClearPattern(indexName))
                       IN IF keys # {}
                          THEN Goto("clear_del") /\ loc' = [loc EXCEPT !.documents = keys]
                          ELSE Finish(OkResult("clearCollection", "none", << >>))
                               /\ loc' = loc
    /\ UNCHANGED engineVars
    /\ BodyFrame

\* DEL of the keys found, line 374
ClearDel ==
    /\ pc = "clear_del"
    /\ \E f \in Faults(client) :
          /\ Send("DEL", loc.documents)
          /\ IF f.failed
             THEN Finish(ErrResult("clearCollection", f.message)) /\ store' = store
             ELSE /\ Finish(OkResult("clearCollection", "none", << >>))
                  /\ store' = Remove(store, loc.documents)
    /\ UNCHANGED <<index, loc>>
    /\ BodyFrame

----
(* The replies to FT.SEARCH *)

\* the reply the tests give the client: "count", the number of documents, then
\* for each document its id, "payload" and its JSON
\* (valkey-search-client.spec.ts, search and deletePointsByFilePath)
RECURSIVE DocTriples(_)
DocTriples(docs) ==
    IF docs = << >> THEN << >>
    ELSE << Str(Head(docs).id), Str(S_payload), Str(Head(docs).json) >>
            \o DocTriples(Tail(docs))

ReplyOf(docs) ==
    Arr(<< Str(S_count), Str(<< HexDigits[Len(docs) + 1] >>) >> \o DocTriples(docs))

DocOf(st, k) ==
    [id |-> k, filePath |-> st[k].filePath,
     json |-> JSONstringify(st[k].filePath, <<"1">>)]

NoRepeat(s) == \A i, j \in 1..Len(s) : i # j => s[i] # s[j]

\* the documents a reply may report: hashes of the keyspace, each at most once
Reportable(st) ==
    { [i \in 1..Len(ks) |-> DocOf(st, ks[i])] :
        ks \in {s \in SeqsUpTo(HashKeys(st), MaxDocs) : NoRepeat(s)} }

\* const [, , , ...documents] = result, lines 306 and 345
Documents(reply) ==
    IF ~Iterable(reply) THEN [ok |-> FALSE, docs |-> << >>]
    ELSE [ok |-> TRUE, docs |-> Drop(Items(reply), 3)]

----
(* deletePointsByFilePath and deletePointsByMultipleFilePaths, lines 331-354 *)

FilePaths == {<<"s","/","f">>}
PathLists == SeqsUpTo(FilePaths, MaxPaths)

CallDelete(paths) ==
    /\ constructed = "yes" /\ pc = "idle"
    /\ opName' = "deletePointsByMultipleFilePaths"
    /\ filePaths' = paths
    /\ sent' = << >>
    /\ IF Len(paths) = 0
       THEN /\ Finish(OkResult("deletePointsByMultipleFilePaths", "none", << >>))
            /\ loc' = NoLoc
            /\ UNCHANGED <<connVars, resume>>
       ELSE /\ result' = NoResult
            /\ Enter("del_search", [NoLoc EXCEPT !.i = 1])
    /\ UNCHANGED <<ctorVars, engineVars, points, query>>

CallDeletePointsByMultipleFilePaths == \E paths \in PathLists : CallDelete(paths)

\* deletePointsByFilePath(filePath) is deletePointsByMultipleFilePaths([filePath])
CallDeletePointsByFilePath == \E filePath \in FilePaths : CallDelete(<< filePath >>)

DeleteFailed(msg) == ErrResult("deletePointsByMultipleFilePaths", msg)
DeleteDone == OkResult("deletePointsByMultipleFilePaths", "none", << >>)

\* after the documents of one path: the next path, or the return
AfterDocuments(i) ==
    IF i < Len(filePaths) THEN Goto("del_search") ELSE Finish(DeleteDone)

\* FT.SEARCH for filePaths[loc.i], lines 341-345
DelSearch ==
    /\ pc = "del_search"
    /\ IF client = "null"
       THEN /\ Finish(DeleteFailed(MsgTypeError))
            /\ UNCHANGED <<sent, loc>>
       ELSE \E f \in Faults(client), docs \in Reportable(store) :
               /\ Send("FT.SEARCH", filePaths[loc.i])
               /\ IF f.failed
                  THEN Finish(DeleteFailed(f.message)) /\ loc' = loc
                  ELSE LET d == Documents(ReplyOf(docs))
                       IN IF ~d.ok THEN Finish(DeleteFailed(MsgTypeError)) /\ loc' = loc
                          ELSE /\ loc' = [loc EXCEPT !.documents = d.docs,
                                                     !.reported = loc.reported \o docs,
                                                     !.i = IF d.docs = << >> THEN loc.i + 1
                                                           ELSE loc.i]
                               /\ IF d.docs = << >> THEN AfterDocuments(loc.i)
                                  ELSE Goto("del_next")
    /\ UNCHANGED engineVars
    /\ BodyFrame

\* DEL of a key the engine holds removes it
EngineDel(st, docId) ==
    IF docId.t = "str" /\ docId.s \in DOMAIN st THEN Remove(st, {docId.s}) ELSE st

\* one round of the loop of lines 346-348: const [docId] of documents, then DEL
DelNext ==
    /\ pc = "del_next"
    /\ LET doc == Head(loc.documents)
           rest == Tail(loc.documents)
       IN IF ~Iterable(doc)
          THEN /\ Finish(DeleteFailed(MsgTypeError))
               /\ UNCHANGED <<sent, store, loc>>
          ELSE \E f \in Faults(client) :
                  LET docId == At(Items(doc), 1)
                  IN /\ sent' = Append(sent, Cmd("DEL", docId.s, << >>))
                     /\ IF f.failed
                        THEN /\ Finish(DeleteFailed(f.message))
                             /\ UNCHANGED <<store, loc>>
                        ELSE /\ store' = EngineDel(store, docId)
                             /\ loc' = [loc EXCEPT !.documents = rest,
                                                   !.i = IF rest = << >> THEN loc.i + 1
                                                         ELSE loc.i]
                             /\ IF rest = << >> THEN AfterDocuments(loc.i)
                                ELSE Goto("del_next")
    /\ UNCHANGED index
    /\ BodyFrame

----
(* search, lines 268-329 *)

\* an empty maxResults stands for an argument left undefined
Queries == { [directoryPrefix |-> dp, maxResults |-> m] :
                dp \in {<< >>, <<"s","/">>}, m \in {<< >>, <<"5">>} }

\* the filter of lines 277-281 and the KNN count of lines 287-288
FilterQuery(directoryPrefix) ==
    IF directoryPrefix = << >> THEN << >>
    ELSE FilterNonEmpty(Split(directoryPrefix, PathSep))
Knn(maxResults) ==
    IF maxResults = << >> THEN <<"DEFAULT_MAX_SEARCH_RESULTS">> ELSE maxResults

\* the callback of documents.map, lines 308-324; .ok = FALSE stands for a throw
\* (a TypeError of the destructuring, the SyntaxError of JSON.parse)
RowOf(doc) ==
    IF ~Iterable(doc) THEN [ok |-> FALSE, row |-> Undefined]
    ELSE LET docId == At(Items(doc), 1)
             jsonData == At(Items(doc), 2)
             data == JSONparse(ToStringJS(jsonData))
         IN IF ~data.ok \/ IsNull(data.v) THEN [ok |-> FALSE, row |-> Undefined]
            ELSE [ok |-> TRUE,
                  row |-> [id |-> docId,
                           filePath |-> OrElse(Prop(data.v, S_filePath), Str(<< >>)),
                           name |-> Prop(data.v, S_name),
                           age |-> Prop(data.v, S_age),
                           coins |-> Prop(data.v, S_coins)]]

\* lines 306-324 on the reply of FT.SEARCH
SearchOutcome(reply) ==
    LET d == Documents(reply)
        rows == [i \in 1..Len(d.docs) |-> RowOf(d.docs[i])]
    IN IF ~d.ok THEN ErrResult("search", MsgTypeError)
       ELSE IF \E i \in 1..Len(rows) : ~rows[i].ok THEN ErrResult("search", MsgSyntaxError)
       ELSE OkResult("search", "none", [i \in 1..Len(rows) |-> rows[i].row])

CallSearch ==
    /\ constructed = "yes" /\ pc = "idle"
    /\ \E q \in Queries : query' = q
    /\ opName' = "search"
    /\ sent' = << >> /\ result' = NoResult
    /\ Enter("search_send", NoLoc)
    /\ UNCHANGED <<ctorVars, engineVars, points, filePaths>>

SearchSend ==
    /\ pc = "search_send"
    /\ IF client = "null"
       THEN /\ Finish(SearchOutcome(Undefined))
            /\ UNCHANGED <<sent, loc>>
       ELSE \E f \in Faults(client), docs \in Reportable(store) :
               /\ sent' = Append(sent, Cmd("FT.SEARCH", indexName,
                                           << FilterQuery(query.directoryPrefix),
                                              Knn(query.maxResults) >>))
               /\ loc' = [loc EXCEPT !.reported = IF f.failed THEN << >> ELSE docs]
               /\ IF f.failed THEN Finish(ErrResult("search", f.message))
                  ELSE Finish(SearchOutcome(ReplyOf(docs)))
    /\ UNCHANGED engineVars
    /\ BodyFrame

----
(* Constructor and connection events *)

MsgUrlRequired == <<"Valkey", "URL", "is", "required">>

NoConn == [client |-> "null", isInitializing |-> FALSE, curAwait |-> "none",
           curEndPending |-> FALSE, staleEnd |-> 0, staleBg |-> 0, opStale |-> FALSE,
           timers |-> << >>, attemptFlip |-> FALSE, retryOwed |-> FALSE,
           consecFails |-> 0]

\* new ValkeySearchVectorStore(workspacePath, url, size), lines 26-33
Construct ==
    /\ constructed = "no"
    /\ \E w \in WorkspacePaths, url \in Urls, size \in {DefaultVectorSize} :
          /\ valkeyUrl' = parseValkeyUrl(url)
          /\ vectorSize' = size
          /\ indexName' = IndexNameOf(w)
          /\ urlArg' = url
          /\ SetConn(initializeClient(NoConn, "bg", parseValkeyUrl(url)).conn)
    /\ constructed' = "yes"
    /\ ctorError' = << >>
    /\ UNCHANGED <<engineVars, opVars>>

\* the caller of the initializeClient invocation that awaited connect() resumes
Resumed(who) == IF who = "op" THEN resume ELSE pc
Ensured(who, st) == IF who = "op" THEN [loc EXCEPT !.ensured = st] ELSE loc

\* the client becomes ready: the 'ready' handler (lines 66-69) runs and a pending
\* connect() resolves
ClientReady ==
    /\ client \in {"connecting", "reconnecting"}
    /\ client' = "ready"
    /\ isInitializing' = FALSE
    /\ curAwait' = "none"
    /\ consecFails' = 0
    /\ retryOwed' = FALSE
    /\ pc' = Resumed(curAwait)
    /\ loc' = Ensured(curAwait, "ready")
    /\ UNCHANGED <<ctorVars, engineVars, curEndPending, staleEnd, staleBg, opStale,
                   timers, attemptFlip, resume, opName, points, filePaths, query, sent, result>>

\* connect() of this.client rejects: the catch block runs (lines 77-81); the client
\* object keeps retrying on its own (retryStrategy, line 59) unless it has ended
ConnectReject ==
    /\ curAwait # "none" /\ client # "ready"
    /\ LET c == CatchFailure(Conn)
       IN /\ \E st \in (IF client = "end" THEN {"end"} ELSE {client, "reconnecting"}) :
                /\ SetConn([c EXCEPT !.curAwait = "none", !.client = st])
                /\ loc' = Ensured(curAwait, st)
    /\ pc' = Resumed(curAwait)
    /\ UNCHANGED <<ctorVars, engineVars, resume, opName, points, filePaths, query, sent, result>>

\* the connection of a ready client drops; the client object reconnects on its own
ConnectionLost ==
    /\ client = "ready"
    /\ client' = "reconnecting"
    /\ UNCHANGED <<ctorVars, engineVars, opVars, isInitializing, curAwait, curEndPending,
                   staleEnd, staleBg, opStale, timers, attemptFlip, retryOwed, consecFails>>

\* the 'end' handler (lines 71-74) of a replaced client runs
StaleEnd ==
    /\ staleEnd > 0
    /\ staleEnd' = staleEnd - 1
    /\ isInitializing' = FALSE
    /\ UNCHANGED <<ctorVars, engineVars, opVars, client, curAwait, curEndPending,
                   staleBg, opStale, timers, attemptFlip, retryOwed, consecFails>>

\* the 'end' handler of this.client runs (after destroy)
CurrentEnd ==
    /\ curEndPending
    /\ curEndPending' = FALSE
    /\ isInitializing' = FALSE
    /\ UNCHANGED <<ctorVars, engineVars, opVars, client, curAwait, staleEnd,
                   staleBg, opStale, timers, attemptFlip, retryOwed, consecFails>>

\* connect() of a replaced client rejects in a background invocation: its catch runs
StaleReject ==
    /\ staleBg > 0
    /\ SetConn(CatchFailure([Conn EXCEPT !.staleBg = staleBg - 1]))
    /\ UNCHANGED <<ctorVars, engineVars, opVars>>

\* the same in the invocation the operation awaits: its catch runs, the operation resumes
OpStaleReject ==
    /\ opStale
    /\ SetConn(CatchFailure([Conn EXCEPT !.opStale = FALSE]))
    /\ pc' = resume
    /\ loc' = [loc EXCEPT !.ensured = client]
    /\ UNCHANGED <<ctorVars, engineVars, resume, opName, points, filePaths, query, sent, result>>

\* a retry timer fires: initializeClient runs again (line 80)
TimerFire ==
    /\ timers # << >>
    /\ LET r == initializeClient([Conn EXCEPT !.timers = Tail(timers)], "bg", valkeyUrl)
       IN StaleWithinBound(r.conn) /\ SetConn(r.conn)
    /\ UNCHANGED <<ctorVars, engineVars, opVars>>

\* destroy, lines 393-397
Destroy ==
    /\ constructed = "yes"
    /\ client \in Live
    /\ SetConn(Disconnect(Conn))
    /\ UNCHANGED <<ctorVars, engineVars, opVars>>

----
(* Operations on a connected adapter *)

GoodUrl == <<"v",":","/","/","h">>

\* the adapter constructed for a valid url, its client ready
Connected ==
    /\ constructed = "yes" /\ urlArg = GoodUrl /\ ctorError = << >>
    /\ valkeyUrl = parseValkeyUrl(GoodUrl)
    /\ indexName \in {IndexNameOf(w) : w \in WorkspacePaths}
    /\ client = "ready" /\ isInitializing = FALSE /\ curAwait = "none"
    /\ curEndPending = FALSE /\ staleEnd = 0 /\ staleBg = 0 /\ opStale = FALSE
    /\ timers = << >> /\ attemptFlip = FALSE /\ retryOwed = FALSE /\ consecFails = 0
    /\ pc = "idle" /\ resume = "idle" /\ opName = "" /\ points = << >> /\ filePaths = << >>
    /\ query = NoQuery
    /\ loc = NoLoc /\ sent = << >> /\ result = NoResult

\* the indexes the engine may hold when the adapter starts
InitialIndexes ==
    {NoIndex, IndexWith(<< >>), IndexWith(<< TagAttr("vector") >>)}
        \cup {IndexWith(<< VectorAttr(d) >>) : d \in VectorSizes}

\* the operations on the index
Init ==
    /\ Connected
    /\ vectorSize \in VectorSizes
    /\ index \in InitialIndexes
    /\ store = EmptyStore

Next ==
    \/ CallInitialize
    \/ InitInfo1
    \/ InitInfo2
    \/ InitDrop
    \/ DropSend
    \/ InitCreate
    \/ InitAlter
    \/ CallDeleteCollection
    \/ CallCollectionExists
    \/ ExistsSend

Spec == Init /\ [][Next]_vars

\* the operations on the documents; a key named like the index may be in the
\* keyspace besides the adapter's hashes
ForeignValue == [id |-> << >>, filePath |-> << >>, payloadKeys |-> {}, pathSegments |-> << >>]

InitDocs ==
    /\ Connected
    /\ vectorSize = DefaultVectorSize
    /\ index = IndexWith(<< VectorAttr(DefaultVectorSize) >>)
    /\ store \in {EmptyStore, [k \in {indexName} |-> ForeignValue]}

NextDocs ==
    \/ CallUpsertPoints
    \/ UpsertBody
    \/ CallClearCollection
    \/ ClearKeys
    \/ ClearDel
    \/ CallDeletePointsByMultipleFilePaths
    \/ CallDeletePointsByFilePath
    \/ DelSearch
    \/ DelNext
    \/ CallSearch
    \/ SearchSend

SpecDocs == InitDocs /\ [][NextDocs]_vars

----
(* The connection lifecycle, with upsertPoints as the operation that uses it *)

InitConn ==
    /\ constructed = "no" /\ urlArg = << >> /\ ctorError = << >>
    /\ valkeyUrl = << >> /\ vectorSize = 0 /\ indexName = << >>
    /\ client = "null" /\ isInitializing = FALSE /\ curAwait = "none"
    /\ curEndPending = FALSE /\ staleEnd = 0 /\ staleBg = 0 /\ opStale = FALSE
    /\ timers = << >> /\ attemptFlip = FALSE /\ retryOwed = FALSE /\ consecFails = 0
    /\ index = NoIndex /\ store = EmptyStore
    /\ pc = "idle" /\ resume = "idle" /\ opName = "" /\ points = << >> /\ filePaths = << >>
    /\ query = NoQuery
    /\ loc = NoLoc /\ sent = << >> /\ result = NoResult

ConnectSettles == ClientReady \/ ConnectReject

NextConn ==
    \/ Construct
    \/ ClientReady
    \/ ConnectReject
    \/ ConnectionLost
    \/ StaleEnd
    \/ CurrentEnd
    \/ StaleReject
    \/ OpStaleReject
    \/ TimerFire
    \/ Destroy
    \/ CallCollectionExists
    \/ ExistsSend

\* timers fire, handlers of emitted events run, and a connect() promise settles
SpecConn ==
    /\ InitConn /\ [][NextConn]_vars
    /\ WF_vars(TimerFire)
    /\ WF_vars(StaleEnd) /\ WF_vars(CurrentEnd)
    /\ WF_vars(StaleReject) /\ WF_vars(OpStaleReject)
    /\ WF_vars((curAwait # "none") /\ ConnectSettles)

\* the connection lifecycle with upsertPoints as the operation
BatchesConn == { <<[id |-> <<"a">>, payload |-> GoodPayload]>> }
CallUpsertPointsConn == CallUpsert(BatchesConn)

NextOp ==
    \/ Construct
    \/ ClientReady
    \/ ConnectReject
    \/ ConnectionLost
    \/ StaleEnd
    \/ CurrentEnd
    \/ StaleReject
    \/ OpStaleReject
    \/ TimerFire
    \/ Destroy
    \/ CallUpsertPointsConn
    \/ UpsertBody

SpecOp ==
    /\ InitConn /\ [][NextOp]_vars
    /\ WF_vars(TimerFire)
    /\ WF_vars(StaleEnd) /\ WF_vars(CurrentEnd)
    /\ WF_vars(StaleReject) /\ WF_vars(OpStaleReject)
    /\ WF_vars((curAwait # "none") /\ ConnectSettles)

----
(* Claims about the connection lifecycle *)

RetryDelayFixed == \A i \in 1..Len(timers) : timers[i] = RetryDelayMs

\* C7: after a failed connection attempt, while the client is not ready, a further
\* attempt is eventually made, however many attempts failed before; every retry
\* is scheduled with the fixed delay of 5000 ms
C7_RetryForever ==
    /\ []RetryDelayFixed
    /\ \A f \in BOOLEAN :
          [](retryOwed /\ attemptFlip = f => <>(~retryOwed \/ attemptFlip # f))

\* after MaxFails consecutive failures a further attempt is in progress
C7_Witness ==
    consecFails = MaxFails /\ curAwait # "none" /\ client = "connecting" /\ timers = << >>

AttemptsInProgress ==
    (IF curAwait # "none" THEN 1 ELSE 0) + staleBg + (IF opStale THEN 1 ELSE 0)

\* C10: at most one initializeClient invocation has created a client and is still
\* awaiting its connect()
C10_SingleAttempt == AttemptsInProgress <= 1

\* C6: a constructor given an empty url throws "Valkey URL is required", creates
\* no client and starts no connection attempt
C6_EmptyUrlThrows ==
    (constructed # "no" /\ urlArg = << >>) =>
        /\ constructed = "threw" /\ ctorError = MsgUrlRequired
        /\ client = "null" /\ curAwait = "none" /\ ~isInitializing /\ timers = << >>

\* C9: when ensureConnected has returned the client is non-null and ready, and a
\* non-empty valid batch is reported upserted only if its HSETs were executed
C9_ConnectedAfterEnsure ==
    /\ pc \notin {"idle", "await"} => loc.ensured = "ready"
    /\ (pc = "idle" /\ result.status = "ok" /\ result.op = "upsertPoints" /\ points # << >>)
          => sent = Queued(indexName, points, Len(points))

----
(* upsertPoints on a connected adapter *)

NextUpsert ==
    \/ CallUpsertPoints
    \/ UpsertBody
    \/ CallClearCollection
    \/ ClearKeys
    \/ ClearDel

SpecUpsert == InitDocs /\ [][NextUpsert]_vars

----
(* Claims on initialize *)

InitializeDone == pc = "idle" /\ result.op = "initialize"

\* the message of the failure reads "Unknown index name"
SaysUnknownIndex(f) ==
    \E i \in 1..Len(f.message) :
        /\ i + 2 <= Len(f.message)
        /\ f.message[i] = "Unknown" /\ f.message[i + 1] = "index"
        /\ f.message[i + 2] = "name"

NoDropNoCreate == ~HasCmd(sent, "FT.DROPINDEX") /\ ~HasCmd(sent, "FT.CREATE")

\* C1, as stated: when initialize has completed and its first FT.INFO failed, then
\* if the failure's message contains "Unknown index name" FT.CREATE was issued
\* without any FT.DROPINDEX and initialize returned true, and for any other
\* failure neither FT.CREATE nor FT.DROPINDEX was issued and initialize failed.
C1_AsStated ==
    (InitializeDone /\ loc.info1.failed) =>
        IF SaysUnknownIndex(loc.info1)
        THEN /\ HasCmd(sent, "FT.CREATE") /\ ~HasCmd(sent, "FT.DROPINDEX")
             /\ result.status = "ok" /\ result.flag = "true"
        ELSE NoDropNoCreate /\ result.status = "error"

\* C1, amended: when initialize has completed and its first FT.INFO failed, then
\* if the failure's message contains "Unknown index name" exactly one FT.CREATE
\* was issued without any FT.DROPINDEX, and initialize returned true if the engine
\* accepted that FT.CREATE and failed with an error if it was rejected; for any
\* other failure neither FT.CREATE nor FT.DROPINDEX was issued and initialize
\* failed with an error.
C1_UnknownIndexOnly ==
    (InitializeDone /\ loc.info1.failed) =>
        IF SaysUnknownIndex(loc.info1)
        THEN /\ CountCmd(sent, "FT.CREATE") = 1 /\ ~HasCmd(sent, "FT.DROPINDEX")
             /\ IF loc.created
                THEN result.status = "ok" /\ result.flag = "true"
                ELSE result.status = "error"
        ELSE NoDropNoCreate /\ result.status = "error"

\* initialize returned true after FT.INFO failed with "Unknown index name"
C1_Witness ==
    /\ InitializeDone /\ SaysUnknownIndex(loc.info1)
    /\ HasCmd(sent, "FT.CREATE") /\ result.status = "ok" /\ result.flag = "true"

\* the dimension of the vector field of an index, 0 if it has none
RECURSIVE DimensionIn(_)
DimensionIn(attrs) ==
    IF attrs = << >> THEN 0
    ELSE IF Head(attrs).attribute = "vector" /\ Head(attrs).type = "VECTOR"
    THEN Head(attrs).dimension
    ELSE DimensionIn(Tail(attrs))

Matches(ix) == ix.exists /\ DimensionIn(ix.attributes) = vectorSize
Differs(ix) == ix.exists /\ DimensionIn(ix.attributes) # vectorSize

Position(log, name) == CHOOSE i \in 1..Len(log) : log[i].cmd = name

\* C2: when initialize has completed successfully the index exists with a vector
\* dimension equal to vectorSize; if the index it found had another dimension,
\* one FT.DROPINDEX and after it one FT.CREATE were issued and it returned true;
\* if the index it found had that dimension, neither was issued and it returned
\* false.
C2_DimensionMatches ==
    (InitializeDone /\ result.status = "ok") =>
        /\ Matches(index)
        /\ Differs(loc.index0) =>
              /\ CountCmd(sent, "FT.DROPINDEX") = 1 /\ CountCmd(sent, "FT.CREATE") = 1
              /\ Position(sent, "FT.DROPINDEX") < Position(sent, "FT.CREATE")
              /\ result.flag = "true"
        /\ Matches(loc.index0) => NoDropNoCreate /\ result.flag = "false"

\* initialize recreated an index of another dimension
C2_Witness ==
    /\ InitializeDone /\ result.status = "ok" /\ result.flag = "true"
    /\ Differs(loc.index0) /\ DimensionIn(loc.index0.attributes) # 0
    /\ HasCmd(sent, "FT.DROPINDEX") /\ Matches(index)

----
(* Claims on the documents *)

\* the payload is missing or lacks one of the four keys
Lacking(payload) ==
    \/ ~payload.present
    \/ "filePath" \notin payload.keys \/ "codeChunk" \notin payload.keys
    \/ "startLine" \notin payload.keys \/ "endLine" \notin payload.keys

HasLacking(pts) == \E i \in 1..Len(pts) : Lacking(pts[i].payload)

UpsertReturns == pc = "upsert_body" /\ pc' = "idle"

\* C8: a call of upsertPoints whose batch has a point with a missing or
\* incomplete payload fails with an error, hands no command to the client and
\* leaves the keyspace as it was; a call with an empty batch hands no command to
\* the client and leaves the keyspace as it was.
C8_AllOrNothing ==
    [][ UpsertReturns =>
          /\ HasLacking(points) =>
                result'.status = "error" /\ sent' = << >> /\ store' = store
          /\ points = << >> => sent' = << >> /\ store' = store ]_vars

\* upsertPoints failed on a batch whose first point is valid and whose second is
\* not, and the first point is not in the keyspace
C8_Witness ==
    /\ pc = "idle" /\ result.op = "upsertPoints" /\ result.status = "error"
    /\ Len(points) = 2
    /\ ~Lacking(points[1].payload) /\ Lacking(points[2].payload)
    /\ DocId(indexName, points[1].id) \notin DOMAIN store

DocumentKeys(st) == {k \in DOMAIN st : \E id \in PointIds : k = indexName \o <<":">> \o id}

\* C3: after clearCollection has completed successfully no key
\* {indexName}:{pointId} is in the keyspace.
C3_ClearLeavesNoDocument ==
    (pc = "idle" /\ result.op = "clearCollection" /\ result.status = "ok") =>
        DocumentKeys(store) = {}

DelKeys(log) == [i \in 1..CountCmd(log, "DEL") |->
                    SelectSeq(log, LAMBDA c : c.cmd = "DEL")[i].key]

DeleteDoneOk ==
    /\ pc = "idle" /\ result.op = "deletePointsByMultipleFilePaths"
    /\ result.status = "ok"

\* C4: when deletePointsByMultipleFilePaths has completed successfully it has
\* issued one FT.SEARCH per file path and one DEL per document the replies
\* reported, each DEL naming the id of its document; for one path and one
\* reported document that is 2 commands.
C4_OneDelPerDocument ==
    DeleteDoneOk =>
        /\ CountCmd(sent, "FT.SEARCH") = Len(filePaths)
        /\ DelKeys(sent) = [i \in 1..Len(loc.reported) |-> loc.reported[i].id]
        /\ (Len(filePaths) = 1 /\ Len(loc.reported) = 1) => Len(sent) = 2

\* C5: when search has completed on a reply that reports documents, it has
\* returned one result per reported document, each with the filePath of that
\* document's JSON.
C5_OneResultPerDocument ==
    (pc = "idle" /\ opName = "search" /\ loc.reported # << >>) =>
        /\ result.status = "ok"
        /\ Len(result.rows) = Len(loc.reported)
        /\ \A i \in 1..Len(result.rows) :
              result.rows[i].filePath = Str(loc.reported[i].filePath)

============================================================================
